---- MODULE Spec2Model ----
(***************************************************************************)
(* orbit-command: the command service (app.py) and the simulation loop     *)
(* (orbit_simulator.py) sharing telemetry_data.json.                       *)
(*                                                                         *)
(* Number representation.  Python floats are modelled on fixed grids:      *)
(*   velocities and burn rates : multiples of 1/VScale km/s                *)
(*   radius, altitude          : multiples of 1/RScale km                  *)
(*   angle, dtheta             : multiples of 1/AScale degree              *)
(* with the two non-finite values float() accepts ("nan", "inf") kept as   *)
(* separate kinds.  Arithmetic rounds onto the grid where the float        *)
(* operation rounds.  "-inf" behaves like "inf" in every operation used    *)
(* here (hypot is even) and is not enumerated.                             *)
(*                                                                         *)
(* Two specifications over the same state:                                 *)
(*   Spec     : each request and each loop iteration runs start to finish  *)
(*              (SendCommand, Tick); the operations' own contracts.        *)
(*   ConcSpec : one file access per step (H_.., S_..), the two processes'  *)
(*              steps interleaved freely; nothing locks the file.          *)
(* One request is in progress at a time.  File and log writes succeed.     *)
(* telemetry.py, a stand-alone writer of the same file that neither        *)
(* process starts, is not part of the system modelled.                     *)
(***************************************************************************)
EXTENDS Integers, Sequences, FiniteSets, TLC

(* ------------------------------ bounds -------------------------------- *)
MaxCmds == 2
MaxTicks == 5
\* the same two bounds for the step-by-step specification
ConcMaxCmds == 2
ConcMaxTicks == 3

(* ------------------------- program constants -------------------------- *)
\* GM = 398600.4418 km^3/s^2, kept to 1/RScale
GM10 == 3986004
EARTH_R == 6371
MAX_DUR == 60
FEED_CAP == 1000
FULL_TURN == 360
\* 180 / math.pi, times 10^4
DEG_PER_RAD4 == 572958
INIT_ALT == 500

(* ------------------------------ grids --------------------------------- *)
VScale == 20
RScale == 10
AScale == 100000
\* the scale of DEG_PER_RAD4
D4Scale == 10000

(* ------------------------------ floats -------------------------------- *)
Fin(n) == [k |-> "fin", v |-> n]
NaN == [k |-> "nan", v |-> 0]
Inf == [k |-> "inf", v |-> 0]

\* nearest grid point to n/d for d > 0, ties to even
RoundDiv(n, d) ==
    LET q == n \div d
        r == n % d
    IN  IF 2 * r < d THEN q
        ELSE IF 2 * r > d THEN q + 1
        ELSE IF q % 2 = 0 THEN q ELSE q + 1

\* float + float
FAdd(a, b) ==
    IF a.k = "nan" \/ b.k = "nan" THEN NaN
    ELSE IF a.k = "inf" \/ b.k = "inf" THEN Inf
    ELSE Fin(a.v + b.v)

\* float / int, the int >= 1
FDivInt(a, d) ==
    IF a.k = "fin" THEN Fin(RoundDiv(a.v, d)) ELSE a

RECURSIVE SqrtSearch(_, _, _)
SqrtSearch(n, lo, hi) ==
    IF lo >= hi THEN lo
    ELSE LET mid == (lo + hi + 1) \div 2
         IN  IF mid * mid <= n THEN SqrtSearch(n, mid, hi)
             ELSE SqrtSearch(n, lo, mid - 1)

\* largest s with s*s <= n
ISqrt(n) == SqrtSearch(n, 0, 46340)

\* math.hypot(a, b)
FHypot(a, b) ==
    IF a.k = "inf" \/ b.k = "inf" THEN Inf
    ELSE IF a.k = "nan" \/ b.k = "nan" THEN NaN
    ELSE Fin(ISqrt(a.v * a.v + b.v * b.v))

\* float % m  (a finite operand here is never negative)
FMod(a, m) ==
    IF a.k = "fin" THEN Fin(a.v % m) ELSE NaN

(* --------------------------- JSON values ------------------------------ *)
JInt(n) == [t |-> "int", v |-> n, s |-> ""]
\* a JSON number with a fraction: q / VScale
JReal(q) == [t |-> "real", v |-> q, s |-> ""]
JStr(str) == [t |-> "str", v |-> 0, s |-> str]
JNull == [t |-> "null", v |-> 0, s |-> ""]
\* the key is not in the request body
JMissing == [t |-> "missing", v |-> 0, s |-> ""]

\* data.get(key, 0)
DataGet(data, key) ==
    IF data[key].t = "missing" THEN JInt(0) ELSE data[key]

\* integer part, towards zero
Trunc(q, d) == IF q >= 0 THEN q \div d ELSE -((-q) \div d)

\* float(x): [ok, val]; ok = FALSE is TypeError or ValueError
PyFloat(x) ==
    CASE x.t = "int" -> [ok |-> TRUE, val |-> Fin(x.v * VScale)]
      [] x.t = "real" -> [ok |-> TRUE, val |-> Fin(x.v)]
      [] x.t = "str" ->
            CASE x.s = "nan" -> [ok |-> TRUE, val |-> NaN]
              [] x.s = "inf" -> [ok |-> TRUE, val |-> Inf]
              [] x.s = "2" -> [ok |-> TRUE, val |-> Fin(2 * VScale)]
              [] x.s = "2.5" -> [ok |-> TRUE, val |-> Fin((5 * VScale) \div 2)]
              [] OTHER -> [ok |-> FALSE, val |-> NaN]
      [] OTHER -> [ok |-> FALSE, val |-> NaN]

\* int(x): [ok, val]; ok = FALSE is TypeError or ValueError
PyInt(x) ==
    CASE x.t = "int" -> [ok |-> TRUE, val |-> x.v]
      [] x.t = "real" -> [ok |-> TRUE, val |-> Trunc(x.v, VScale)]
      [] x.t = "str" ->
            CASE x.s = "2" -> [ok |-> TRUE, val |-> 2]
              [] OTHER -> [ok |-> FALSE, val |-> 0]
      [] OTHER -> [ok |-> FALSE, val |-> 0]

(* ------------------------- telemetry records -------------------------- *)
Has(tm, key) == key \in DOMAIN tm
SetF(tm, key, val) ==
    [f \in DOMAIN tm \cup {key} |-> IF f = key THEN val ELSE tm[f]]
\* tm.pop(key, None)
Pop(tm, key) == [f \in DOMAIN tm \ {key} |-> tm[f]]

BurningStatus(n) == "Burning: " \o ToString(n) \o "s remaining"

\* the record app.py creates when telemetry_data.json does not exist
InitialTm ==
    [vx |-> Fin((15 * VScale) \div 2),
     vy |-> Fin(0),
     radius |-> (EARTH_R + INIT_ALT) * RScale,
     angle |-> Fin(0),
     status |-> "Idle",
     altitude |-> (EARTH_R + INIT_ALT) * RScale - EARTH_R * RScale]

\* placeholder for "no record held"
NoTm == [status |-> "none"]

(* ------------------------ app.py: send_command ------------------------ *)
\* ParseCommand with dvx converted outside the try block's verdict
ParseCommand_SkipsDvx(data) ==
    LET x == PyFloat(DataGet(data, "dvx"))
        y == PyFloat(DataGet(data, "dvy"))
        d == PyInt(DataGet(data, "duration"))
    IN  [ok |-> y.ok /\ d.ok,
         dvx |-> x.val, dvy |-> y.val, duration |-> d.val]

\* lines 30-35: the three conversions inside one try block
ParseCommand(data) ==
    LET x == PyFloat(DataGet(data, "dvx"))
        y == PyFloat(DataGet(data, "dvy"))
        d == PyInt(DataGet(data, "duration"))
    IN  [ok |-> x.ok /\ y.ok /\ d.ok,
         dvx |-> x.val, dvy |-> y.val, duration |-> d.val]

\* DurationOK without the upper bound
DurationOK_NoUpperBound(duration) == ~(duration < 1)

\* line 39, negated
DurationOK(duration) == ~(duration < 1 \/ duration > MAX_DUR)

\* ScheduleBurn storing the whole delta-v as the per-tick rate
ScheduleBurn_RateNotDivided(tm, dvx, dvy, duration) ==
    LET t1 == SetF(tm, "burn_rate_x", dvx)
        t2 == SetF(t1, "burn_rate_y", dvy)
        t3 == SetF(t2, "burn_remaining", duration)
    IN  SetF(t3, "status", BurningStatus(duration))

\* ScheduleBurn adding to a burn in progress instead of replacing it
ScheduleBurn_Additive(tm, dvx, dvy, duration) ==
    LET oldx == IF Has(tm, "burn_rate_x") THEN tm.burn_rate_x ELSE Fin(0)
        oldy == IF Has(tm, "burn_rate_y") THEN tm.burn_rate_y ELSE Fin(0)
        t1 == SetF(tm, "burn_rate_x", FAdd(oldx, FDivInt(dvx, duration)))
        t2 == SetF(t1, "burn_rate_y", FAdd(oldy, FDivInt(dvy, duration)))
        t3 == SetF(t2, "burn_remaining", duration)
    IN  SetF(t3, "status", BurningStatus(duration))

\* lines 50-53
ScheduleBurn(tm, dvx, dvy, duration) ==
    LET t1 == SetF(tm, "burn_rate_x", FDivInt(dvx, duration))
        t2 == SetF(t1, "burn_rate_y", FDivInt(dvy, duration))
        t3 == SetF(t2, "burn_remaining", duration)
    IN  SetF(t3, "status", BurningStatus(duration))

RespNone == [code |-> 0, status |-> "", telemetry |-> NoTm]
RespInvalidInput ==
    [code |-> 400, status |-> "ERROR: Invalid input", telemetry |-> NoTm]
RespInvalidDuration ==
    [code |-> 400,
     status |-> "ERROR: Duration must be 1-" \o ToString(MAX_DUR) \o " s",
     telemetry |-> NoTm]
RespStoreUnavailable ==
    [code |-> 500, status |-> "ERROR: Could not read telemetry",
     telemetry |-> NoTm]
RespScheduled(tm) ==
    [code |-> 200, status |-> "Burn scheduled", telemetry |-> tm]

(* -------------------- orbit_simulator.py: one tick --------------------- *)
\* BurnStep clearing the burn one tick late (< 0 for <= 0)
BurnStep_KeepsZero(tm) ==
    IF (IF Has(tm, "burn_remaining") THEN tm.burn_remaining ELSE 0) > 0
    THEN LET n == tm.burn_remaining - 1
             t1 == [tm EXCEPT !.vx = FAdd(@, tm.burn_rate_x),
                              !.vy = FAdd(@, tm.burn_rate_y),
                              !.burn_remaining = n,
                              !.status = BurningStatus(n)]
         IN  IF n < 0
             THEN SetF(Pop(Pop(Pop(t1, "burn_rate_x"), "burn_rate_y"),
                           "burn_remaining"),
                       "status", "Stable")
             ELSE t1
    ELSE tm

\* BurnStep leaving burn_rate_y behind when the burn runs out
BurnStep_LeavesRate(tm) ==
    IF (IF Has(tm, "burn_remaining") THEN tm.burn_remaining ELSE 0) > 0
    THEN LET n == tm.burn_remaining - 1
             t1 == [tm EXCEPT !.vx = FAdd(@, tm.burn_rate_x),
                              !.vy = FAdd(@, tm.burn_rate_y),
                              !.burn_remaining = n,
                              !.status = BurningStatus(n)]
         IN  IF n <= 0
             THEN SetF(Pop(Pop(t1, "burn_rate_x"), "burn_remaining"),
                       "status", "Stable")
             ELSE t1
    ELSE tm

\* BurnStep storing "Stable" whenever no burn is in progress
BurnStep_StableWhenIdle(tm) ==
    IF (IF Has(tm, "burn_remaining") THEN tm.burn_remaining ELSE 0) > 0
    THEN LET n == tm.burn_remaining - 1
             t1 == [tm EXCEPT !.vx = FAdd(@, tm.burn_rate_x),
                              !.vy = FAdd(@, tm.burn_rate_y),
                              !.burn_remaining = n,
                              !.status = BurningStatus(n)]
         IN  IF n <= 0
             THEN SetF(Pop(Pop(Pop(t1, "burn_rate_x"), "burn_rate_y"),
                           "burn_remaining"),
                       "status", "Stable")
             ELSE t1
    ELSE [tm EXCEPT !.status = "Stable"]

\* lines 20-29
BurnStep(tm) ==
    IF (IF Has(tm, "burn_remaining") THEN tm.burn_remaining ELSE 0) > 0
    THEN LET n == tm.burn_remaining - 1
             t1 == [tm EXCEPT !.vx = FAdd(@, tm.burn_rate_x),
                              !.vy = FAdd(@, tm.burn_rate_y),
                              !.burn_remaining = n,
                              !.status = BurningStatus(n)]
         IN  IF n <= 0
             THEN SetF(Pop(Pop(Pop(t1, "burn_rate_x"), "burn_rate_y"),
                           "burn_remaining"),
                       "status", "Stable")
             ELSE t1
    ELSE tm

\* line 34: GM / speed ** 2, for speed > 0
RadiusOf(speed) ==
    IF speed.k = "inf" THEN 0
    ELSE (GM10 * VScale * VScale) \div (speed.v * speed.v)

\* line 38: (speed / radius) * (180 / math.pi), radius # 0
DTheta(speed, radius) ==
    IF speed.k = "fin"
    THEN Fin((((speed.v * DEG_PER_RAD4) \div radius)
              * ((AScale * RScale) \div D4Scale)) \div VScale)
    ELSE speed

\* Propagate taking the speed from the velocity before the burn increment
Propagate_PreBurnSpeed(tm) ==
    LET t1 == BurnStep(tm)
        speed == FHypot(tm.vx, tm.vy)
        moving == speed.k = "inf" \/ (speed.k = "fin" /\ speed.v > 0)
        t2 == IF moving
              THEN [t1 EXCEPT !.radius = RadiusOf(speed),
                              !.altitude = RadiusOf(speed) - EARTH_R * RScale]
              ELSE t1
    IN  IF t2.radius = 0
        THEN [crash |-> TRUE, tm |-> t2]
        ELSE [crash |-> FALSE,
              tm |-> [t2 EXCEPT !.angle =
                        FMod(FAdd(IF Has(t2, "angle") THEN t2.angle ELSE Fin(0),
                                  DTheta(speed, t2.radius)),
                             FULL_TURN * AScale)]]

\* Propagate putting the craft on the ground when the speed is 0
Propagate_ResetsWhenStopped(tm) ==
    LET t1 == BurnStep(tm)
        speed == FHypot(t1.vx, t1.vy)
        moving == speed.k = "inf" \/ (speed.k = "fin" /\ speed.v > 0)
        t2 == IF moving
              THEN [t1 EXCEPT !.radius = RadiusOf(speed),
                              !.altitude = RadiusOf(speed) - EARTH_R * RScale]
              ELSE [t1 EXCEPT !.radius = EARTH_R * RScale, !.altitude = 0]
    IN  IF t2.radius = 0
        THEN [crash |-> TRUE, tm |-> t2]
        ELSE [crash |-> FALSE,
              tm |-> [t2 EXCEPT !.angle =
                        FMod(FAdd(IF Has(t2, "angle") THEN t2.angle ELSE Fin(0),
                                  DTheta(speed, t2.radius)),
                             FULL_TURN * AScale)]]

\* lines 19-39: [crash, tm]; crash is the ZeroDivisionError of line 38
Propagate(tm) ==
    LET t1 == BurnStep(tm)
        speed == FHypot(t1.vx, t1.vy)
        moving == speed.k = "inf" \/ (speed.k = "fin" /\ speed.v > 0)
        t2 == IF moving
              THEN [t1 EXCEPT !.radius = RadiusOf(speed),
                              !.altitude = RadiusOf(speed) - EARTH_R * RScale]
              ELSE t1
    IN  IF t2.radius = 0
        THEN [crash |-> TRUE, tm |-> t2]
        ELSE [crash |-> FALSE,
              tm |-> [t2 EXCEPT !.angle =
                        FMod(FAdd(IF Has(t2, "angle") THEN t2.angle ELSE Fin(0),
                                  DTheta(speed, t2.radius)),
                             FULL_TURN * AScale)]]

\* line 50 of the loop: round(angle, 4)
Round4(a) ==
    IF a.k = "fin" THEN Fin(RoundDiv(a.v, AScale \div 10000) * (AScale \div 10000))
    ELSE a

\* LastN keeping the oldest n entries
LastN_KeepsHead(q, n) == IF Len(q) <= n THEN q ELSE SubSeq(q, 1, n)

\* angle_log[-1000:]
LastN(q, n) == IF Len(q) <= n THEN q ELSE SubSeq(q, Len(q) - n + 1, Len(q))

\* lines 48-53: append the sample, keep the last FEED_CAP
FeedAppend(q, tm) ==
    LastN(Append(q, Round4(IF Has(tm, "angle") THEN tm.angle ELSE Fin(0))),
          FEED_CAP)

(* ------------------------------- inputs -------------------------------- *)
DvxInputs ==
    {JMissing, JReal(45 * VScale), JReal(-((15 * VScale) \div 2)),
     JStr("nan"), JStr("inf"), JStr("abc"), JNull}
DvyInputs == {JInt(0), JInt(3), JStr("abc")}
DurInputs ==
    {JMissing, JInt(-1), JInt(0), JInt(1), JInt(2), JInt(MAX_DUR),
     JInt(MAX_DUR + 1), JReal((5 * VScale) \div 2), JStr("2"), JStr("2.5"),
     JNull}
\* request bodies: every duration with two finite dvx, every dvx with a
\* duration inside and one outside the range, every dvy with a good and a
\* bad duration
Requests ==
    [dvx : {JReal(45 * VScale), JReal(-((15 * VScale) \div 2))},
     dvy : {JInt(0)}, duration : DurInputs]
    \cup [dvx : DvxInputs, dvy : {JInt(0)},
          duration : {JInt(1), JInt(MAX_DUR + 1)}]
    \cup [dvx : {JReal(-((15 * VScale) \div 2))}, dvy : DvyInputs,
          duration : {JInt(2), JNull}]
\* request bodies for the burn specification: a dvx of 0.35 km/s, which is
\* not a whole number of rate steps over 3 s, and one of -7.5 km/s, which
\* stops the craft; burns of 1 s, 3 s and 60 s
BurnRequests ==
    [dvx : {JReal(7), JReal(-((15 * VScale) \div 2))},
     dvy : {JInt(0)},
     duration : {JInt(1), JInt(3), JInt(MAX_DUR)}]
    \cup [dvx : {JReal(7)}, dvy : {JReal(7)}, duration : {JInt(3)}]
\* request bodies for the feed specification
FeedRequests ==
    [dvx : {JReal(-((15 * VScale) \div 2))}, dvy : {JInt(0)},
     duration : {JInt(1), JInt(MAX_DUR)}]
\* request bodies for the step-by-step specification
ConcRequests ==
    [dvx : {JReal(45 * VScale), JStr("abc")}, dvy : {JInt(0), JStr("abc")},
     duration : {JInt(1), JInt(2), JInt(MAX_DUR + 1), JNull}]

(* -------------------------------- state -------------------------------- *)
VARIABLES
    file,       \* telemetry_data.json: [kind, tm], kind "json", "empty" or "garbled"
    log,        \* command_log.txt: the lines appended
    feed,       \* angle_feed.json: the samples
    resp,       \* the last response of send_command
    hpc,        \* send_command: "idle", "load", "open", "dump", "log"
    hreq,       \* send_command: dvx, dvy, duration of the request in progress
    htm,        \* send_command: its local tm
    spc,        \* simulator: "load", "feed", "open", "dump", "crashed"
    stm,        \* simulator: its local tm
    cmds,       \* requests received
    ticks,      \* loop iterations completed since the initial state
    lastOp,     \* history: the last step that answered a request or touched the
                \* record: "init", "cmd", "open", "write" (handler), "tick" (simulator)
    acc,        \* history: the last accepted command and the record it read
    applied,    \* history: saves of the simulator since acc was written
    leftIdle,   \* history: a status other than "Idle" has been stored
    clobbered,  \* history: what the handler's last open(FILE, "w") discarded
    req         \* the body of the last request received

vars == <<file, log, feed, resp, hpc, hreq, htm, spc, stm, cmds, ticks,
          lastOp, acc, applied, leftIdle, clobbered, req>>

Json(tm) == [kind |-> "json", tm |-> tm]
Empty == [kind |-> "empty", tm |-> NoTm]
Garbled == [kind |-> "garbled", tm |-> NoTm]

\* no request received yet
NoData == [dvx |-> JMissing, dvy |-> JMissing, duration |-> JMissing]
NoReq == [ok |-> FALSE, dvx |-> Fin(0), dvy |-> Fin(0), duration |-> 0]
NoAcc == [dvx |-> Fin(0), dvy |-> Fin(0), duration |-> 0, read |-> NoTm]

\* app.py lines 11-21 have run; neither process is inside an operation
Init ==
    /\ file = Json(InitialTm)
    /\ log = <<>>
    /\ feed = <<>>
    /\ resp = RespNone
    /\ hpc = "idle"
    /\ hreq = NoReq
    /\ htm = NoTm
    /\ spc = "load"
    /\ stm = NoTm
    /\ cmds = 0
    /\ ticks = 0
    /\ lastOp = "init"
    /\ acc = NoAcc
    /\ applied = 0
    /\ leftIdle = FALSE
    /\ clobbered = Empty
    /\ req = NoData

(* ------------- operations, each run from start to finish --------------- *)
\* a return before the record is touched (lines 35, 40, 47)
Reject(r) ==
    /\ resp' = r
    /\ cmds' = cmds + 1
    /\ lastOp' = "cmd"
    /\ UNCHANGED <<file, log, feed, hpc, hreq, htm, spc, stm, ticks,
                   acc, applied, leftIdle, clobbered>>

\* send_command, lines 29-62, with no step of the simulator in between
SendCommand(data) ==
    /\ hpc = "idle"
    /\ spc \in {"load", "crashed"}
    /\ cmds < MaxCmds
    /\ req' = data
    /\ LET p == ParseCommand(data)
       IN  IF ~p.ok THEN Reject(RespInvalidInput)
           ELSE IF ~DurationOK(p.duration) THEN Reject(RespInvalidDuration)
           ELSE IF file.kind # "json" THEN Reject(RespStoreUnavailable)
           ELSE LET tm == ScheduleBurn(file.tm, p.dvx, p.dvy, p.duration)
                IN  /\ file' = Json(tm)
                    /\ log' = Append(log, [dvx |-> p.dvx, dvy |-> p.dvy,
                                           duration |-> p.duration])
                    /\ resp' = RespScheduled(tm)
                    /\ cmds' = cmds + 1
                    /\ lastOp' = "cmd"
                    /\ acc' = [dvx |-> p.dvx, dvy |-> p.dvy,
                               duration |-> p.duration, read |-> file.tm]
                    /\ applied' = 0
                    /\ leftIdle' = (leftIdle \/ tm.status # "Idle")
                    /\ clobbered' = file
                    /\ UNCHANGED <<feed, hpc, hreq, htm, spc, stm, ticks>>

\* the uncaught exception of line 17 or line 38 ends the loop
SimCrash ==
    /\ spc' = "crashed"
    /\ UNCHANGED <<file, log, feed, resp, hpc, hreq, htm, stm, cmds, ticks,
                   lastOp, acc, applied, leftIdle, clobbered, req>>

\* one iteration of the loop, lines 15-68, with no step of the handler in between
Tick ==
    /\ spc = "load"
    /\ hpc = "idle"
    /\ ticks < MaxTicks
    /\ IF file.kind # "json" THEN SimCrash
       ELSE LET r == Propagate(file.tm)
            IN  IF r.crash THEN SimCrash
                ELSE /\ file' = Json(r.tm)
                     /\ feed' = FeedAppend(feed, r.tm)
                     /\ ticks' = ticks + 1
                     /\ lastOp' = "tick"
                     /\ applied' = applied + 1
                     /\ leftIdle' = (leftIdle \/ r.tm.status # "Idle")
                     /\ UNCHANGED <<log, resp, hpc, hreq, htm, spc, stm, cmds,
                                    acc, clobbered, req>>

Next ==
    \/ \E data \in Requests : SendCommand(data)
    \/ Tick

Spec == Init /\ [][Next]_vars

(* ------------- the same operations on burns that run out --------------- *)
BurnNext ==
    \/ \E data \in BurnRequests : SendCommand(data)
    \/ Tick

BurnSpec == Init /\ [][BurnNext]_vars

(* ------------- the same operations on a feed about to fill ------------- *)
\* the record and the feed after n iterations of the loop on the bootstrap
\* record, no command received
RECURSIVE AfterTicks(_, _)
AfterTicks(s, n) ==
    IF n = 0 THEN s
    ELSE IF n = 1
    THEN LET r == Propagate(s.tm)
         IN  [tm |-> r.tm, feed |-> FeedAppend(s.feed, r.tm)]
    ELSE \* the test has the first half computed before the second starts
         LET half == AfterTicks(s, n \div 2)
         IN  IF Len(half.feed) >= 0
             THEN AfterTicks(half, n - (n \div 2))
             ELSE s

\* app.py lines 11-21 have run and the feed file does not exist yet
Bootstrap == [tm |-> InitialTm, feed |-> <<>>]

\* the loop has just started, or has run FEED_CAP - 2 iterations
FeedStarts == {0, FEED_CAP - 2}

FeedInit ==
    \E start \in FeedStarts :
        LET after == AfterTicks(Bootstrap, start)
        IN  /\ file = Json(after.tm)
            /\ feed = after.feed
            /\ log = <<>>
            /\ resp = RespNone
            /\ hpc = "idle"
            /\ hreq = NoReq
            /\ htm = NoTm
            /\ spc = "load"
            /\ stm = NoTm
            /\ cmds = 0
            /\ ticks = 0
            /\ lastOp = "init"
            /\ acc = NoAcc
            /\ applied = start
            /\ leftIdle = FALSE
            /\ clobbered = Empty
            /\ req = NoData

FeedNext ==
    \/ \E data \in FeedRequests : SendCommand(data)
    \/ Tick

FeedSpec == FeedInit /\ [][FeedNext]_vars

(* ---------- the same operations, one file access per step -------------- *)
\* the write at the close of "with open(FILE, 'w')": the bytes go to offset 0
\* of whatever the file holds by then.  Onto an empty file that is the dump;
\* onto bytes the other process wrote after this open, it is the dump when
\* the dump is at least as long, and the dump followed by the rest of the
\* other text (not JSON) when it is shorter.  Lengths are not modelled.
WriteAtClose(tm) ==
    \/ /\ file' = Json(tm)
       /\ leftIdle' = (leftIdle \/ tm.status # "Idle")
    \/ /\ file.kind # "empty"
       /\ file' = Garbled
       /\ UNCHANGED leftIdle

\* lines 29-40: a request arrives; conversions and the range check
H_Receive(data) ==
    /\ hpc = "idle"
    /\ cmds < ConcMaxCmds
    /\ req' = data
    /\ LET p == ParseCommand(data)
       IN  IF ~p.ok THEN Reject(RespInvalidInput)
           ELSE IF ~DurationOK(p.duration) THEN Reject(RespInvalidDuration)
           ELSE /\ hreq' = p
                /\ hpc' = "load"
                /\ cmds' = cmds + 1
                /\ UNCHANGED <<file, log, feed, resp, htm, spc, stm, ticks,
                               lastOp, acc, applied, leftIdle, clobbered>>

\* H_Load scheduling the burn on the bootstrap record, not the one read
H_Load_FromInitial ==
    /\ hpc = "load"
    /\ IF file.kind # "json"
       THEN /\ resp' = RespStoreUnavailable
            /\ hpc' = "idle"
            /\ hreq' = NoReq
            /\ lastOp' = "cmd"
            /\ UNCHANGED <<file, log, feed, htm, spc, stm, cmds, ticks,
                           acc, applied, leftIdle, clobbered, req>>
       ELSE /\ htm' = ScheduleBurn(InitialTm, hreq.dvx, hreq.dvy, hreq.duration)
            /\ hpc' = "open"
            /\ acc' = [dvx |-> hreq.dvx, dvy |-> hreq.dvy,
                       duration |-> hreq.duration, read |-> file.tm]
            /\ UNCHANGED <<file, log, feed, resp, hreq, spc, stm, cmds, ticks,
                           lastOp, applied, leftIdle, clobbered, req>>

\* lines 43-53: json.load, then the burn fields set on the local tm
H_Load ==
    /\ hpc = "load"
    /\ IF file.kind # "json"
       THEN /\ resp' = RespStoreUnavailable
            /\ hpc' = "idle"
            /\ hreq' = NoReq
            /\ lastOp' = "cmd"
            /\ UNCHANGED <<file, log, feed, htm, spc, stm, cmds, ticks,
                           acc, applied, leftIdle, clobbered, req>>
       ELSE /\ htm' = ScheduleBurn(file.tm, hreq.dvx, hreq.dvy, hreq.duration)
            /\ hpc' = "open"
            /\ acc' = [dvx |-> hreq.dvx, dvy |-> hreq.dvy,
                       duration |-> hreq.duration, read |-> file.tm]
            /\ UNCHANGED <<file, log, feed, resp, hreq, spc, stm, cmds, ticks,
                           lastOp, applied, leftIdle, clobbered, req>>

\* line 55: open(FILE, "w") truncates
H_Open ==
    /\ hpc = "open"
    /\ clobbered' = file
    /\ file' = Empty
    /\ hpc' = "dump"
    /\ lastOp' = "open"
    /\ UNCHANGED <<log, feed, resp, hreq, htm, spc, stm, cmds, ticks,
                   acc, applied, leftIdle, req>>

\* line 56 and the close
H_Dump ==
    /\ hpc = "dump"
    /\ WriteAtClose(htm)
    /\ hpc' = "log"
    /\ applied' = 0
    /\ lastOp' = "write"
    /\ UNCHANGED <<log, feed, resp, hreq, htm, spc, stm, cmds, ticks,
                   acc, clobbered, req>>

\* lines 59-62
H_Log ==
    /\ hpc = "log"
    /\ log' = Append(log, [dvx |-> hreq.dvx, dvy |-> hreq.dvy,
                           duration |-> hreq.duration])
    /\ resp' = RespScheduled(htm)
    /\ hpc' = "idle"
    /\ hreq' = NoReq
    /\ htm' = NoTm
    /\ lastOp' = "cmd"
    /\ UNCHANGED <<file, feed, spc, stm, cmds, ticks, acc, applied,
                   leftIdle, clobbered, req>>

\* lines 16-39: json.load, then the tick computed on the local tm
S_Load ==
    /\ spc = "load"
    /\ ticks < ConcMaxTicks
    /\ IF file.kind # "json" THEN SimCrash
       ELSE LET r == Propagate(file.tm)
            IN  IF r.crash THEN SimCrash
                ELSE /\ stm' = r.tm
                     /\ spc' = "feed"
                     /\ UNCHANGED <<file, log, feed, resp, hpc, hreq, htm,
                                    cmds, ticks, lastOp, acc, applied,
                                    leftIdle, clobbered, req>>

\* lines 42-61
S_Feed ==
    /\ spc = "feed"
    /\ feed' = FeedAppend(feed, stm)
    /\ spc' = "open"
    /\ UNCHANGED <<file, log, resp, hpc, hreq, htm, stm, cmds, ticks,
                   lastOp, acc, applied, leftIdle, clobbered, req>>

\* line 64: open(FILE, "w") truncates
S_Open ==
    /\ spc = "open"
    /\ file' = Empty
    /\ spc' = "dump"
    /\ lastOp' = "open"
    /\ UNCHANGED <<log, feed, resp, hpc, hreq, htm, stm, cmds, ticks,
                   acc, applied, leftIdle, clobbered, req>>

\* line 65 and the close, then lines 67-68
S_Dump ==
    /\ spc = "dump"
    /\ WriteAtClose(stm)
    /\ spc' = "load"
    /\ stm' = NoTm
    /\ ticks' = ticks + 1
    /\ lastOp' = "tick"
    /\ applied' = applied + 1
    /\ UNCHANGED <<log, feed, resp, hpc, hreq, htm, cmds, acc, clobbered,
                   req>>

ConcNext ==
    \/ \E data \in ConcRequests : H_Receive(data)
    \/ H_Load
    \/ H_Open
    \/ H_Dump
    \/ H_Log
    \/ S_Load
    \/ S_Feed
    \/ S_Open
    \/ S_Dump

ConcSpec == Init /\ [][ConcNext]_vars

(* ------------- send_command with failing file operations --------------- *)
\* what Flask answers when the view raises: 500 with its own error page
RespUnhandled ==
    [code |-> 500, status |-> "Internal Server Error", telemetry |-> NoTm]

\* lines 43-47: open(FILE, "r") or json.load raises; the except answers
H_LoadFails ==
    /\ hpc = "load"
    /\ resp' = RespStoreUnavailable
    /\ hpc' = "idle"
    /\ hreq' = NoReq
    /\ lastOp' = "cmd"
    /\ UNCHANGED <<file, log, feed, htm, spc, stm, cmds, ticks,
                   acc, applied, leftIdle, clobbered, req>>

\* line 55: open(FILE, "w") raises OSError before it truncates; no except
H_OpenFails ==
    /\ hpc = "open"
    /\ resp' = RespUnhandled
    /\ hpc' = "idle"
    /\ hreq' = NoReq
    /\ htm' = NoTm
    /\ lastOp' = "cmd"
    /\ UNCHANGED <<file, log, feed, spc, stm, cmds, ticks,
                   acc, applied, leftIdle, clobbered, req>>

\* line 56 and the close: the buffered write raises OSError after the open
\* has truncated; no except
H_DumpFails ==
    /\ hpc = "dump"
    /\ resp' = RespUnhandled
    /\ hpc' = "idle"
    /\ hreq' = NoReq
    /\ htm' = NoTm
    /\ lastOp' = "cmd"
    /\ UNCHANGED <<file, log, feed, spc, stm, cmds, ticks,
                   acc, applied, leftIdle, clobbered, req>>

\* lines 59-60: open("command_log.txt", "a") or the write raises; no except
H_LogFails ==
    /\ hpc = "log"
    /\ resp' = RespUnhandled
    /\ hpc' = "idle"
    /\ hreq' = NoReq
    /\ htm' = NoTm
    /\ lastOp' = "cmd"
    /\ UNCHANGED <<file, log, feed, spc, stm, cmds, ticks,
                   acc, applied, leftIdle, clobbered, req>>

\* the handler one file access per step, each access succeeding or raising,
\* and the loop one whole iteration between requests
FaultNext ==
    \/ \E data \in ConcRequests : H_Receive(data)
    \/ H_Load
    \/ H_LoadFails
    \/ H_Open
    \/ H_OpenFails
    \/ H_Dump
    \/ H_DumpFails
    \/ H_Log
    \/ H_LogFails
    \/ Tick

FaultSpec == Init /\ [][FaultNext]_vars

(* ======================================================================== *)
(* Claims                                                                   *)
(* ======================================================================== *)
\* a JSON number, or a key left out (data.get defaults it to 0)
IsNumber(x) == x.t \in {"int", "real", "missing"}
NumberOf(x) ==
    IF x.t = "real" THEN Fin(x.v)
    ELSE IF x.t = "int" THEN Fin(x.v * VScale)
    ELSE Fin(0)
\* neither a number nor text that spells one
NonNumeric(x) ==
    \/ x.t = "null"
    \/ x.t = "str" /\ x.s \notin {"2", "2.5", "nan", "inf"}
IsBurning(st) == \E n \in (0 - 1) .. (MAX_DUR + 1) : st = BurningStatus(n)
Min(a, b) == IF a <= b THEN a ELSE b
RECURSIVE AddTimes(_, _, _)
AddTimes(v, r, k) == IF k <= 0 THEN v ELSE AddTimes(FAdd(v, r), r, k - 1)
Kinematics == {"vx", "vy", "radius", "altitude", "angle"}

\* C1: a request with numeric dvx, dvy and an integer duration in 1..60 that
\* finds the record readable is answered "Burn scheduled" (200) and leaves the
\* record with burn_remaining = duration, burn_rate_x = dvx/duration,
\* burn_rate_y = dvy/duration and status "Burning: {duration}s remaining".
C1_BurnInstalled ==
    [][(/\ cmds' = cmds + 1
        /\ IsNumber(req'.dvx) /\ IsNumber(req'.dvy)
        /\ req'.duration.t = "int"
        /\ req'.duration.v \in 1 .. MAX_DUR
        /\ file.kind = "json")
       => /\ resp'.code = 200
          /\ resp'.status = "Burn scheduled"
          /\ file'.kind = "json"
          /\ Has(file'.tm, "burn_remaining")
          /\ file'.tm.burn_remaining = req'.duration.v
          /\ file'.tm.burn_rate_x = FDivInt(NumberOf(req'.dvx), req'.duration.v)
          /\ file'.tm.burn_rate_y = FDivInt(NumberOf(req'.dvy), req'.duration.v)
          /\ file'.tm.status = BurningStatus(req'.duration.v)
          /\ \A f \in Kinematics : file'.tm[f] = file.tm[f]]_vars

\* a 60 s burn of dvx = 45 km/s has just been installed: rate 0.75 km/s
C1_Witness ==
    /\ lastOp = "cmd"
    /\ resp.code = 200
    /\ req.dvx = JReal(45 * VScale)
    /\ req.duration = JInt(MAX_DUR)
    /\ file.kind = "json"
    /\ Has(file.tm, "burn_remaining")
    /\ file.tm.burn_remaining = MAX_DUR
    /\ file.tm.burn_rate_x = Fin((3 * VScale) \div 4)
    /\ file.tm.status = "Burning: 60s remaining"

\* C2: a request with numeric dvx, dvy and an integer duration < 1 or > 60 is
\* answered with the duration error (400) and the record is exactly what it
\* was, whether it was Idle, Burning(n) or Stable.
C2_BadDurationRejected ==
    [][(/\ cmds' = cmds + 1
        /\ IsNumber(req'.dvx) /\ IsNumber(req'.dvy)
        /\ req'.duration.t = "int"
        /\ (req'.duration.v < 1 \/ req'.duration.v > MAX_DUR))
       => /\ resp' = RespInvalidDuration
          /\ resp'.code = 400
          /\ file' = file
          /\ log' = log]_vars

\* duration 61 has just been refused while a burn was in progress
C2_Witness ==
    /\ lastOp = "cmd"
    /\ resp = RespInvalidDuration
    /\ req.duration = JInt(MAX_DUR + 1)
    /\ file.kind = "json"
    /\ Has(file.tm, "burn_remaining")
    /\ file.tm.burn_remaining = 1

\* C3 (as amended): with burn_remaining = N installed and no command arriving
\* meanwhile, after j < N ticks the record holds burn_remaining = N - j and
\* status "Burning: {N-j}s remaining" (so N-1 down to 1), and after the N-th
\* tick, and every later one, burn_remaining is absent and status is "Stable".
C3_Countdown ==
    (acc.duration > 0 /\ file.kind = "json")
    => IF applied < acc.duration
       THEN /\ Has(file.tm, "burn_remaining")
            /\ file.tm.burn_remaining = acc.duration - applied
            /\ file.tm.status = BurningStatus(acc.duration - applied)
       ELSE /\ ~Has(file.tm, "burn_remaining")
            /\ file.tm.status = "Stable"

\* a 2 s burn has just completed on its second tick
C3_Witness ==
    /\ acc.duration = 2
    /\ applied = 2
    /\ lastOp = "tick"
    /\ file.kind = "json"
    /\ ~Has(file.tm, "burn_remaining")
    /\ file.tm.status = "Stable"

\* C3 as stated: the status stored by the j-th tick, j = 1..N, is
\* "Burning: {N-j}s remaining", down to 0.
C3_AsStated ==
    (acc.duration > 0 /\ file.kind = "json"
     /\ applied >= 1 /\ applied <= acc.duration)
    => file.tm.status = BurningStatus(acc.duration - applied)

\* C4: whenever the record parses, under every interleaving of the handler's
\* and the loop's file accesses, burn_remaining is present exactly when
\* burn_rate_x and burn_rate_y are both present, and exactly when status is a
\* "Burning: ..." value.
C4_BurnFieldsCoincide ==
    file.kind = "json"
    => /\ Has(file.tm, "burn_remaining")
            <=> (Has(file.tm, "burn_rate_x") /\ Has(file.tm, "burn_rate_y"))
       /\ Has(file.tm, "burn_rate_x") <=> Has(file.tm, "burn_rate_y")
       /\ Has(file.tm, "burn_remaining") <=> IsBurning(file.tm.status)

\* the loop has saved a burning record between the handler's open and its dump
C4_Witness ==
    /\ hpc = "dump"
    /\ lastOp = "tick"
    /\ file.kind = "json"
    /\ Has(file.tm, "burn_remaining")
    /\ IsBurning(file.tm.status)

\* C5: the stored angle satisfies 0 <= angle < 360 after any number of ticks
\* and commands.
C5_AngleInRange ==
    file.kind = "json"
    => /\ file.tm.angle.k = "fin"
       /\ 0 <= file.tm.angle.v
       /\ file.tm.angle.v < FULL_TURN * AScale

\* C6: a command accepted while a burn is in progress replaces it: from then
\* on the record counts down the new duration with the new rates
\* dvx/duration, dvy/duration, and the velocity is the velocity at acceptance
\* plus one new rate per tick, nothing of the old burn.
C6_Replaced ==
    (acc.duration > 0 /\ Has(acc.read, "burn_remaining") /\ file.kind = "json")
    => LET rx == FDivInt(acc.dvx, acc.duration)
           ry == FDivInt(acc.dvy, acc.duration)
           k == Min(applied, acc.duration)
       IN  /\ file.tm.vx = AddTimes(acc.read.vx, rx, k)
           /\ file.tm.vy = AddTimes(acc.read.vy, ry, k)
           /\ IF applied < acc.duration
              THEN /\ Has(file.tm, "burn_remaining")
                   /\ file.tm.burn_remaining = acc.duration - applied
                   /\ file.tm.burn_rate_x = rx
                   /\ file.tm.burn_rate_y = ry
              ELSE /\ ~Has(file.tm, "burn_remaining")
                   /\ ~Has(file.tm, "burn_rate_x")
                   /\ ~Has(file.tm, "burn_rate_y")

\* a burn with another rate and 1 s left was replaced, and the new burn has
\* run out
C6_Witness ==
    /\ acc.duration > 0
    /\ Has(acc.read, "burn_remaining")
    /\ acc.read.burn_remaining = 1
    /\ acc.read.burn_rate_x # FDivInt(acc.dvx, acc.duration)
    /\ applied = acc.duration
    /\ lastOp = "tick"
    /\ file.kind = "json"
    /\ file.tm.status = "Stable"

\* C7: once a burn command has been accepted and answered, and no later one
\* is, the record is left without burn fields only by the burn running out:
\* status "Stable", after `duration` saves that each added the burn rate.
C7_RunsToCompletion ==
    (/\ acc.duration > 0 /\ hpc = "idle" /\ resp.code = 200
     /\ file.kind = "json" /\ ~Has(file.tm, "burn_remaining"))
    => /\ file.tm.status = "Stable"
       /\ applied >= acc.duration
       /\ file.tm.vx = AddTimes(acc.read.vx,
                                FDivInt(acc.dvx, acc.duration), acc.duration)

\* C8: once a status other than "Idle" has been stored, no stored record has
\* status "Idle".
C8_IdleOnlyAtBootstrap ==
    (leftIdle /\ file.kind = "json") => file.tm.status # "Idle"

\* C9: the handler's write stores the vx, vy, radius, altitude and angle it
\* read, also when its open(FILE, "w") discarded a record the loop had saved
\* after that read (the last writer wins; the tick is lost).
C9_LastWriterWins ==
    [][(/\ hpc = "dump" /\ hpc' = "log"
        /\ file'.kind = "json"
        /\ clobbered.kind = "json"
        /\ clobbered.tm # acc.read)
       => \A f \in Kinematics : file'.tm[f] = acc.read[f]]_vars

\* a tick's radius and angle were discarded by the handler's write
C9_Witness ==
    /\ lastOp = "write"
    /\ file.kind = "json"
    /\ clobbered.kind = "json"
    /\ clobbered.tm.angle # file.tm.angle
    /\ clobbered.tm.radius # file.tm.radius
    /\ file.tm.angle = acc.read.angle
    /\ file.tm.radius = acc.read.radius

\* C10: a request whose dvx, dvy or duration is non-numeric is answered
\* "ERROR: Invalid input" (400) on arrival: the handler never reaches the
\* read, the record and the log are unchanged, and this is the answer also
\* when the duration is out of range or the record cannot be read.
C10_InvalidInputFirst ==
    [][(/\ cmds' = cmds + 1
        /\ (NonNumeric(req'.dvx) \/ NonNumeric(req'.dvy)
            \/ NonNumeric(req'.duration)))
       => /\ resp' = RespInvalidInput
          /\ resp'.code = 400
          /\ hpc' = "idle"
          /\ htm' = htm
          /\ file' = file
          /\ log' = log]_vars

\* dvx = "abc" with duration 61 has just been refused while the loop had the
\* record truncated
C10_Witness ==
    /\ lastOp = "cmd"
    /\ resp = RespInvalidInput
    /\ req.dvx = JStr("abc")
    /\ req.duration = JInt(MAX_DUR + 1)
    /\ file.kind = "empty"
    /\ spc = "dump"

\* C11: a valid command during which the record cannot be read or cannot be
\* written is answered "ERROR: Could not read telemetry" (500), and the
\* record then holds what it held when the request arrived.
C11_StoreFailureRejected ==
    [][(hpc \in {"load", "open", "dump"} /\ hpc' = "idle")
       => /\ resp' = RespStoreUnavailable
          /\ file' = (IF hpc = "dump" THEN clobbered ELSE file)]_vars

\* C12: a tick that reads burn_remaining = n > 1 stores n - 1, the status
\* "Burning: {n-1}s remaining" and the two rates unchanged; a tick that
\* reads 1 stores the record without the three burn fields and with status
\* "Stable"; no stored record has burn_remaining = 0 or the status
\* "Burning: 0s remaining".
C12_TickCountdown ==
    [][/\ (ticks' = ticks + 1 /\ Has(file.tm, "burn_remaining"))
          => IF file.tm.burn_remaining > 1
             THEN /\ Has(file'.tm, "burn_remaining")
                  /\ file'.tm.burn_remaining = file.tm.burn_remaining - 1
                  /\ file'.tm.status
                       = BurningStatus(file.tm.burn_remaining - 1)
                  /\ file'.tm.burn_rate_x = file.tm.burn_rate_x
                  /\ file'.tm.burn_rate_y = file.tm.burn_rate_y
             ELSE /\ ~Has(file'.tm, "burn_remaining")
                  /\ ~Has(file'.tm, "burn_rate_x")
                  /\ ~Has(file'.tm, "burn_rate_y")
                  /\ file'.tm.status = "Stable"
       /\ file'.kind = "json"
          => /\ Has(file'.tm, "burn_remaining")
                  => file'.tm.burn_remaining # 0
             /\ file'.tm.status # BurningStatus(0)]_vars

\* the first tick of a 60 s burn has stored 59
C12_Witness ==
    /\ lastOp = "tick"
    /\ acc.duration = MAX_DUR
    /\ applied = 1
    /\ file.kind = "json"
    /\ Has(file.tm, "burn_remaining")
    /\ file.tm.burn_remaining = MAX_DUR - 1
    /\ file.tm.status = "Burning: 59s remaining"
    /\ file.tm.burn_rate_x = FDivInt(acc.dvx, MAX_DUR)

\* C13 (as amended): while an accepted burn is not replaced, each tick adds
\* the stored rates, the quotients dvx/duration and dvy/duration as rounded
\* when the command was accepted; after k <= duration ticks vx, vy are the
\* velocity at acceptance with the rate added k times, and they stay so once
\* the record is Stable; the radius and altitude a tick stores come from the
\* velocity after that tick's increment.
C13_RateAddedPerTick ==
    (acc.duration > 0 /\ file.kind = "json")
    => LET k == Min(applied, acc.duration)
           speed == FHypot(file.tm.vx, file.tm.vy)
       IN  /\ file.tm.vx
                = AddTimes(acc.read.vx, FDivInt(acc.dvx, acc.duration), k)
           /\ file.tm.vy
                = AddTimes(acc.read.vy, FDivInt(acc.dvy, acc.duration), k)
           /\ (lastOp = "tick" /\ speed.k = "fin" /\ speed.v > 0)
              => /\ file.tm.radius = RadiusOf(speed)
                 /\ file.tm.altitude = RadiusOf(speed) - EARTH_R * RScale

\* a 3 s burn of dvx = 0.35 km/s has run out: the rate 0.35/3 was added 3
\* times, and the radius is the one of the final speed
C13_Witness ==
    /\ acc.dvx = Fin(7)
    /\ acc.duration = 3
    /\ applied = 3
    /\ lastOp = "tick"
    /\ file.kind = "json"
    /\ file.tm.status = "Stable"
    /\ file.tm.vx = AddTimes(acc.read.vx, FDivInt(Fin(7), 3), 3)
    /\ file.tm.radius # acc.read.radius

\* C13 as stated: when the burn has run out, the velocity is exactly the
\* velocity at acceptance plus (dvx, dvy).
C13_AsStated ==
    (acc.duration > 0 /\ applied >= acc.duration /\ file.kind = "json")
    => /\ file.tm.vx = FAdd(acc.read.vx, acc.dvx)
       /\ file.tm.vy = FAdd(acc.read.vy, acc.dvy)

\* C14: a tick whose velocity after the burn step has speed 0 stores the
\* radius, altitude and angle it read, and the loop goes on (no division by
\* zero); so they stay frozen on every tick until a burn changes the speed.
C14_ZeroSpeedFreezes ==
    [][(/\ ticks' = ticks + 1
        /\ FHypot(file'.tm.vx, file'.tm.vy) = Fin(0))
       => /\ file'.tm.radius = file.tm.radius
          /\ file'.tm.altitude = file.tm.altitude
          /\ file'.tm.angle = file.tm.angle
          /\ spc' = "load"]_vars

\* a burn of dvx = -7.5 km/s has stopped the craft, and a later tick has run
\* on the stopped craft; the radius is still the one before the stop
C14_Witness ==
    /\ lastOp = "tick"
    /\ spc = "load"
    /\ acc.duration = 1
    /\ applied = 3
    /\ file.kind = "json"
    /\ file.tm.vx = Fin(0)
    /\ file.tm.vy = Fin(0)
    /\ file.tm.status = "Stable"
    /\ file.tm.radius = acc.read.radius
    /\ file.tm.angle = acc.read.angle

\* C15: every tick appends its sample at the end of the feed and then keeps
\* the last 1000: the feed never holds more than 1000 entries, below 1000 it
\* grows by the new sample, and at 1000 the oldest entry is dropped and the
\* others keep their order.
C15_FeedFifo ==
    [][(ticks' = ticks + 1)
       => LET sample == Round4(file'.tm.angle)
          IN  /\ Len(feed') <= FEED_CAP
              /\ Len(feed') = Min(Len(feed) + 1, FEED_CAP)
              /\ feed' = IF Len(feed) < FEED_CAP
                         THEN Append(feed, sample)
                         ELSE Append(Tail(feed), sample)]_vars

\* the feed was full and a tick has dropped its oldest entry
C15_Witness ==
    /\ lastOp = "tick"
    /\ ticks >= 3
    /\ Len(feed) = FEED_CAP
    /\ file.kind = "json"
    /\ feed[FEED_CAP] = Round4(file.tm.angle)
    /\ feed[1] # AfterTicks(Bootstrap, 1).feed[1]

\* C16: when the audit-log write fails the burn stays installed and the
\* caller is answered "Burn scheduled" (200) with the updated record.
C16_LogFailureNonFatal ==
    [][(hpc = "log" /\ hpc' = "idle")
       => /\ resp'.code = 200
          /\ resp'.status = "Burn scheduled"
          /\ resp'.telemetry = htm
          /\ file' = Json(htm)]_vars

\* C17: a loop iteration that finds the record unreadable (truncated by the
\* handler and not yet rewritten, or corrupt) does not end the loop.
C17_LoopSurvivesBadRecord ==
    [][(spc = "load" /\ file.kind # "json") => spc' # "crashed"]_vars

\* C18: under every interleaving of the handler's and the loop's file
\* accesses, a record that has burn_remaining has it in 1..60 and has the
\* status "Burning: {burn_remaining}s remaining".
C18_BurnRemainingInRange ==
    (file.kind = "json" /\ Has(file.tm, "burn_remaining"))
    => /\ 1 <= file.tm.burn_remaining
       /\ file.tm.burn_remaining <= MAX_DUR
       /\ file.tm.status = BurningStatus(file.tm.burn_remaining)

\* the loop has saved the burn_remaining = 1 it computed from a 2 s burn
\* over the record of a later 1 s burn
C18_Witness ==
    /\ lastOp = "tick"
    /\ hpc = "idle"
    /\ acc.duration = 1
    /\ resp.code = 200
    /\ file.kind = "json"
    /\ Has(file.tm, "burn_remaining")
    /\ file.tm.burn_remaining = 1
    /\ file.tm.status = "Burning: 1s remaining"

\* C19: a tick that reads a record with no burn in progress stores the vx,
\* vy and status it read and adds no burn field (Idle stays Idle, Stable
\* stays Stable); only radius, altitude and angle may differ.
C19_NoBurnTickFrame ==
    [][(ticks' = ticks + 1 /\ ~Has(file.tm, "burn_remaining"))
       => /\ DOMAIN file'.tm = DOMAIN file.tm
          /\ \A f \in DOMAIN file.tm \ {"radius", "altitude", "angle"} :
                file'.tm[f] = file.tm[f]
          /\ ~Has(file'.tm, "burn_remaining")
          /\ ~Has(file'.tm, "burn_rate_x")
          /\ ~Has(file'.tm, "burn_rate_y")]_vars

\* a tick has run on a Stable record and left it Stable, the angle advanced
C19_Witness ==
    /\ lastOp = "tick"
    /\ acc.duration = 1
    /\ applied = 2
    /\ file.kind = "json"
    /\ file.tm.status = "Stable"
    /\ file.tm.vx = FAdd(acc.read.vx, acc.dvx)
    /\ file.tm.angle # acc.read.angle

====
